---- MODULE Spec2Model ----
(***************************************************************************)
(* The Diversion commit notifier (src/bot.js): a timer-driven poll of the  *)
(* upstream commit list, compared against the in-memory last-seen id, and  *)
(* a notification sent to one Discord channel when the head changes.       *)
(*                                                                         *)
(* Every await of checkForNewCommits is a separate step, so that ticks     *)
(* started by successive timer firings interleave as they do on the Node   *)
(* event loop.  Between two awaits the code runs to completion.            *)
(***************************************************************************)
EXTENDS Integers, Sequences, FiniteSets, TLC

\* Number of timer firings explored by the polling specification.
MaxTicks == 3
\* Number of timer firings explored when every response shape is an input.
MaxShapeTicks == 2
\* Number of timer firings explored under fair scheduling.
MaxRetryTicks == 2
\* Number of timer firings and of client.login calls explored over the
\* lifetime of the connection.
MaxLifeTicks == 1
MaxLogins == 3
\* Number of timer firings and of interactions explored together.
MaxBotTicks == 1
MaxInteractions == 1

(***************************************************************************)
(* JavaScript values.  null and undefined are distinct values; a commit id *)
(* is a JSON primitive, or undefined when the record has no id field.      *)
(***************************************************************************)
Null == "null"
Undefined == "undefined"
CommitIds == {"c1", "c2"}
NotRead == "notread"

\* One element of a JSON array: a commit record (an object), a scalar or null.
Rec(i) == [kind |-> "rec", id |-> i]
ScalarElem == [kind |-> "scalar", id |-> Undefined]
NullElem == [kind |-> "null", id |-> Undefined]

\* The value of a property or a variable: an array, a string (its characters
\* are scalars), a number, or undefined.
Arr(s) == [tag |-> "array", items |-> s]
Str(s) == [tag |-> "string", items |-> s]
Num == [tag |-> "number", items |-> <<>>]
Undef == [tag |-> "undefined", items |-> <<>>]
Thrown == [tag |-> "thrown", items |-> <<>>]

\* A response body: text that is not JSON, a stream that breaks while it is
\* read, or a JSON document (null, a scalar, an array, an object with its
\* commits property, Undef when the object has none).
NoBody == [tag |-> "none", items |-> <<>>, commits |-> Undef]
InvalidJson == [tag |-> "invalid", items |-> <<>>, commits |-> Undef]
Aborted == [tag |-> "aborted", items |-> <<>>, commits |-> Undef]
JNull == [tag |-> "null", items |-> <<>>, commits |-> Undef]
JScalar == [tag |-> "scalar", items |-> <<>>, commits |-> Undef]
JArray(s) == [tag |-> "array", items |-> s, commits |-> Undef]
JObject(c) == [tag |-> "object", items |-> <<>>, commits |-> c]

\* Commit lists, newest first.
L12 == <<Rec("c1"), Rec("c2")>>
L21 == <<Rec("c2"), Rec("c1")>>

\* The bodies of the polling specification: both response shapes, both heads,
\* an empty list and a body that does not parse.
CoreBodies ==
    {InvalidJson, JArray(<<>>), JArray(L12), JObject(Arr(L21))}

\* Every response shape: the core ones, the other empty shapes, documents
\* with no list in them, and lists whose first element is no commit record.
AllBodies ==
    CoreBodies \cup
    { Aborted, JNull, JScalar,
      JArray(L21), JObject(Arr(L12)),
      JObject(Arr(<<>>)), JObject(Undef),
      JObject(Str(<<ScalarElem, ScalarElem, ScalarElem>>)), JObject(Num),
      JArray(<<ScalarElem>>), JArray(<<NullElem>>),
      JArray(<<Rec(Undefined), Rec("c1")>>), JArray(<<Rec(Null), Rec("c1")>>) }

Statuses == {200, 500}

\* The list a body carries in one of the two accepted shapes.
HasList(b) == b.tag = "array" \/ (b.tag = "object" /\ b.commits.tag = "array")
ListOf(b) == IF b.tag = "array" THEN b.items ELSE b.commits.items

\* A non-empty commit list: its first element is a commit record.
CommitList(b) ==
    /\ b.tag \notin {"invalid", "aborted", "none"}
    /\ HasList(b)
    /\ Len(ListOf(b)) > 0
    /\ ListOf(b)[1].kind = "rec"
HeadId(b) == ListOf(b)[1].id

VARIABLES
    lastCommitId,   \* bot.js:77
    tick,           \* the invocations of checkForNewCommits, in timer order
    readyPc,        \* position of the client.once('ready') handler
    timers,         \* number of intervals installed by setInterval
    crashed,        \* the process died of an unhandled rejection
    cmd,            \* the invocations of the InteractionCreate handler
    env,            \* process.env, bot.js:25-41
    proc,           \* the process: loading the module, running, or exited
    exitCode,       \* the argument of process.exit
    listening,      \* server.listen has been called, bot.js:26
    conn,           \* the gateway connection of the client
    logins,         \* number of client.login calls
    latest,         \* the commit record handed to the formatter
    commitMessage,  \* the text the formatter produced, bot.js:116
    DIVERSION_BEARER_TOKEN, \* the configured credential, bot.js:41
    cleaned,        \* cleanBearerToken of the credential, bot.js:221
    recleaned,      \* cleanBearerToken of cleaned
    pollerRequest,  \* the request of checkForNewCommits, bot.js:88-94
    statusRequest   \* the request of getLatestCommit, bot.js:233-242

hostVars == <<env, proc, exitCode, listening>>
tokenVars == <<DIVERSION_BEARER_TOKEN, cleaned, recleaned,
               pollerRequest, statusRequest>>
pureVars == <<latest, commitMessage, tokenVars>>

\* What the poller and the handlers of the client leave alone.
elsewhere == <<hostVars, conn, logins, pureVars>>

vars == <<lastCommitId, tick, readyPc, timers, crashed, cmd,
          hostVars, conn, logins, pureVars>>

Largest(S) == CHOOSE n \in S : \A m \in S : m <= n
TickIds ==
    1..Largest({MaxTicks, MaxShapeTicks, MaxBotTicks, MaxRetryTicks, MaxLifeTicks})
InteractionIds == 1..MaxInteractions

NewTick ==
    [pc |-> "idle", status |-> 0, body |-> NoBody, seen |-> NotRead,
     outcome |-> "none", sends |-> 0, threw |-> FALSE, quiet |-> FALSE,
     steady |-> FALSE]

Started == {t \in TickIds : tick[t].pc # "idle"}
InFlight == {t \in TickIds : tick[t].pc \notin {"idle", "done"}}

\* An interaction: the command it names (none when it is no chat-input
\* command), interaction.deferred and interaction.replied, whether the
\* cleaned token was found empty, the API response being read, the content
\* of the final response being sent, and the final responses (reply or
\* editReply) issued so far.
NewInteraction ==
    [pc |-> "idle", name |-> "none", deferred |-> FALSE, replied |-> FALSE,
     tokenEmpty |-> FALSE,
     status |-> 0, body |-> NoBody, repos |-> "none", content |-> "none",
     via |-> "none", finals |-> 0, threw |-> FALSE]

(***************************************************************************)
(* The environment, bot.js:31-59.  A variable is absent (undefined), set   *)
(* to the empty string, or set to a non-empty string.                      *)
(***************************************************************************)
requiredEnvVars ==
    << "DISCORD_TOKEN", "CHANNEL_ID", "DIVERSION_BEARER_TOKEN",
       "DIVERSION_REPO_NAME", "DIVERSION_ORG", "CLIENT_ID", "GUILD_ID" >>

\* The variables with a default, bot.js:31 and bot.js:33.
DefaultedEnvVars == {"DIVERSION_BASE_URL", "DIVERSION_WORKSPACE"}

EnvVars == {requiredEnvVars[k] : k \in DOMAIN requiredEnvVars} \cup DefaultedEnvVars

EnvValues == {"absent", "empty", "set"}

\* An environment in which every variable is set.
Configured == [v \in EnvVars |-> "set"]

\* No commit record, and no text formatted yet.
NoRecord == [author_name |-> "none"]
NotFormatted == [author |-> "none"]

\* A string is the sequence of its characters.  null and undefined are kept
\* apart from every string, and so is the mark of a value not computed yet.
NullToken == <<"null">>
UndefinedToken == <<"undefined">>
NotApplied == <<"none">>

\* A credential that cleaning leaves as it is.
PlainToken == <<"x">>

\* No request has been built yet.
NotBuilt == [url |-> "none", authorization |-> <<>>]

\* The token is configured and nothing has been computed from it.
TokenConfigured(t) ==
    /\ DIVERSION_BEARER_TOKEN = t
    /\ cleaned = NotApplied
    /\ recleaned = NotApplied
    /\ pollerRequest = NotBuilt
    /\ statusRequest = NotBuilt

\* The module has been evaluated under a complete environment: the server
\* listens, the client is constructed and its first login is under way
\* (bot.js:11-83, 454).
Init ==
    /\ lastCommitId = Null
    /\ tick = [t \in TickIds |-> NewTick]
    /\ cmd = [i \in InteractionIds |-> NewInteraction]
    /\ readyPc = "waiting"
    /\ timers = 0
    /\ crashed = FALSE
    /\ env = Configured
    /\ proc = "running"
    /\ exitCode = 0
    /\ listening = TRUE
    /\ conn = "starting"
    /\ logins = 1
    /\ latest = NoRecord
    /\ commitMessage = NotFormatted
    /\ TokenConfigured(PlainToken)

(***************************************************************************)
(* checkForNewCommits, bot.js:85-134                                       *)
(***************************************************************************)

\* Variant: every status from 200 up counts as a success.
ResOk_NoUpperBound(s) == s >= 200

\* res.ok (bot.js:96): the status is in the 2xx range.
ResOk(s) == s >= 200 /\ s <= 299

\* Variant: the list of the object shape is read oldest first.
ExtractCommits_ObjectReversed(data) ==
    IF data.tag = "array" THEN Arr(data.items)
    ELSE IF data.tag = "null" THEN Thrown
    ELSE IF data.tag = "scalar" THEN Arr(<<>>)
    ELSE IF data.commits.tag = "undefined" THEN Arr(<<>>)
    ELSE [data.commits EXCEPT
            !.items = [k \in 1..Len(@) |-> @[Len(@) + 1 - k]]]

\* Variant: an object without a commits property is taken as one commit
\* record, data.commits || [data].
ExtractCommits_SingleRecord(data) ==
    IF data.tag = "array" THEN Arr(data.items)
    ELSE IF data.tag = "null" THEN Thrown
    ELSE IF data.tag = "scalar" THEN Arr(<<ScalarElem>>)
    ELSE IF data.commits.tag = "undefined" THEN Arr(<<Rec(Undefined)>>)
    ELSE data.commits

\* bot.js:105  Array.isArray(data) ? data : data.commits || []
\* null has no properties (TypeError); a scalar has no commits property; a
\* falsy commits property (undefined here) gives the empty array.
ExtractCommits(data) ==
    IF data.tag = "array" THEN Arr(data.items)
    ELSE IF data.tag = "null" THEN Thrown
    ELSE IF data.tag = "scalar" THEN Arr(<<>>)
    ELSE IF data.commits.tag = "undefined" THEN Arr(<<>>)
    ELSE data.commits

\* bot.js:106  commits.length > 0 (a number has no length: undefined > 0).
LengthPositive(c) == c.tag \in {"array", "string"} /\ Len(c.items) > 0

\* bot.js:107  commits[0]
Latest(c) == c.items[1]

\* latest.id (bot.js:110) throws when latest is null.
IdThrows(e) == e.kind = "null"

\* Variant: the head always counts as new.
IsNewCommit_Always(id, last) == TRUE

\* bot.js:110  latest.id !== lastCommitId
IsNewCommit(id, last) == id # last

\* Variant: the assignment is missing and the stored id stays as it was.
Stored_Kept(id, last) == last

\* bot.js:111  lastCommitId = latest.id
Stored(id, last) == id

\* Variant: the catch logs and rethrows, as getLatestCommit's does.
Caught_Rethrown(r, o) == [r EXCEPT !.pc = "done", !.outcome = o, !.threw = TRUE]

\* bot.js:126-133: the catch logs and swallows; the call completes normally.
Caught(r, o) == [r EXCEPT !.pc = "done", !.outcome = o]

\* A return, or the end of the try block (bot.js:98, 125).
Returned(r, o) == [r EXCEPT !.pc = "done", !.outcome = o]

\* History kept for the properties: steady is set on the tick whose fetch
\* has just resolved with body b, and stays set on another tick for as long
\* as every body fetched since that tick's own carries the same head.
Observe(t, b) ==
    [v \in TickIds |->
        IF v = t THEN [tick[v] EXCEPT !.steady = CommitList(b)]
        ELSE [tick[v] EXCEPT !.steady =
                @ /\ (b.tag \in {"invalid", "aborted"}
                        \/ (CommitList(b) /\ HeadId(b) = HeadId(tick[v].body)))]]

\* The promise of the timer callback settles; a rejection nobody handles
\* ends the process (Node 18, src/Dockerfile:2).
Settle(t, r) ==
    /\ tick' = [tick EXCEPT ![t] = r]
    /\ crashed' = (crashed \/ r.threw)

\* bot.js:204: the interval fires and calls checkForNewCommits, which runs
\* up to the fetch of bot.js:88.
TimerFire(n) ==
    /\ ~crashed
    /\ timers > 0
    /\ Cardinality(Started) < n
    /\ LET t == Cardinality(Started) + 1 IN
         tick' = [tick EXCEPT ![t] =
                    [NewTick EXCEPT !.pc = "fetch", !.quiet = (InFlight = {})]]
    /\ UNCHANGED <<lastCommitId, readyPc, timers, crashed, cmd, elsewhere>>

\* bot.js:88-101: the fetch rejects (network failure), or resolves with a
\* status and a body still to be read.
FetchSettled(t, B) ==
    /\ ~crashed
    /\ tick[t].pc = "fetch"
    /\ \/ Settle(t, Caught(tick[t], "neterr"))
       \/ \E s \in Statuses, b \in B :
            IF ResOk(s)
            THEN /\ tick' = [Observe(t, b) EXCEPT
                                ![t].pc = "json", ![t].status = s, ![t].body = b]
                 /\ UNCHANGED crashed
            ELSE Settle(t, [tick[t] EXCEPT !.pc = "text", !.status = s])
    /\ UNCHANGED <<lastCommitId, readyPc, timers, cmd, elsewhere>>

\* bot.js:97-98: the error body is read and logged, then the call returns.
TextSettled(t) ==
    /\ ~crashed
    /\ tick[t].pc = "text"
    /\ \/ Settle(t, Returned(tick[t], "httperr"))
       \/ Settle(t, Caught(tick[t], "texterr"))
    /\ UNCHANGED <<lastCommitId, readyPc, timers, cmd, elsewhere>>

\* bot.js:101-113: res.json() settles; on data the commits are extracted,
\* the head compared with lastCommitId and stored, and the channel looked up.
JsonSettled(t) ==
    /\ ~crashed
    /\ tick[t].pc = "json"
    /\ LET r == tick[t]
           c == ExtractCommits(r.body)
       IN
         IF r.body.tag \in {"invalid", "aborted"}
         THEN Settle(t, Caught(r, "parseerr")) /\ UNCHANGED lastCommitId
         ELSE IF c = Thrown
         THEN Settle(t, Caught(r, "typeerr")) /\ UNCHANGED lastCommitId
         ELSE IF ~LengthPositive(c)
         THEN Settle(t, Returned(r, "empty")) /\ UNCHANGED lastCommitId
         ELSE IF IdThrows(Latest(c))
         THEN Settle(t, Caught(r, "typeerr")) /\ UNCHANGED lastCommitId
         ELSE IF IsNewCommit(Latest(c).id, lastCommitId)
         THEN /\ lastCommitId' = Stored(Latest(c).id, lastCommitId)
              /\ Settle(t, [r EXCEPT !.pc = "lookup", !.seen = lastCommitId])
         ELSE /\ Settle(t, [Returned(r, "same") EXCEPT !.seen = lastCommitId])
              /\ UNCHANGED lastCommitId
    /\ UNCHANGED <<readyPc, timers, cmd, elsewhere>>

\* bot.js:113-122: client.channels.fetch settles; with a channel the message
\* is formatted and channel.send called.
LookupSettled(t) ==
    /\ ~crashed
    /\ tick[t].pc = "lookup"
    /\ \/ Settle(t, Caught(tick[t], "lookuperr"))
       \/ Settle(t, Returned(tick[t], "nochannel"))
       \/ Settle(t, [tick[t] EXCEPT !.pc = "send", !.sends = @ + 1])
    /\ UNCHANGED <<lastCommitId, readyPc, timers, cmd, elsewhere>>

\* bot.js:122-125: channel.send settles.
SendSettled(t) ==
    /\ ~crashed
    /\ tick[t].pc = "send"
    /\ \/ Settle(t, Returned(tick[t], "sent"))
       \/ Settle(t, Caught(tick[t], "senderr"))
    /\ UNCHANGED <<lastCommitId, readyPc, timers, cmd, elsewhere>>

(***************************************************************************)
(* client.once('ready'), bot.js:137-205                                    *)
(***************************************************************************)

\* bot.js:137-160: the first login completes and the client emits ready; the
\* handler registered with once runs up to rest.put.
ReadyFired ==
    /\ ~crashed
    /\ readyPc = "waiting"
    /\ conn = "starting"
    /\ readyPc' = "put"
    /\ conn' = "ready"
    /\ UNCHANGED <<lastCommitId, tick, timers, crashed, cmd, hostVars, logins, pureVars>>

\* bot.js:160-174, 187-204: the registration resolves and the verification
\* is requested, or it rejects, is logged, and the interval is installed.
PutSettled ==
    /\ ~crashed
    /\ readyPc = "put"
    /\ \/ readyPc' = "get" /\ UNCHANGED timers
       \/ readyPc' = "done" /\ timers' = timers + 1
    /\ UNCHANGED <<lastCommitId, tick, crashed, cmd, elsewhere>>

\* bot.js:174-186, 202-204: the verification settles either way and the
\* interval is installed.
GetSettled ==
    /\ ~crashed
    /\ readyPc = "get"
    /\ readyPc' = "done"
    /\ timers' = timers + 1
    /\ UNCHANGED <<lastCommitId, tick, crashed, cmd, elsewhere>>

Ready == ReadyFired \/ PutSettled \/ GetSettled

(***************************************************************************)
(* client.on(Events.InteractionCreate), bot.js:340-437, with               *)
(* getLatestCommit (bot.js:217-275) and testDiversionAPI (bot.js:278-337)  *)
(***************************************************************************)

CommandNames == {"ping", "status", "test", "other"}

\* What the repository-list endpoint answers: a JSON array of repositories,
\* another JSON document, text that is not JSON, or a stream that breaks.
ReposBodies == {"array", "object", "invalid", "aborted"}

\* Variant: a commit the poller has stored already counts as no commit.
Truthy_Unseen(e) == e.kind # "null" /\ e.id # lastCommitId

\* Truthiness of commits[0] (bot.js:362): null is falsy, a record is truthy,
\* and so is a non-zero number or a character.
Truthy(e) == e.kind # "null"

\* Variant: the catch answers once more after the branch has answered.
Respond_Again(r, content) ==
    [r EXCEPT !.pc = "respond", !.content = content,
              !.via = IF r.deferred THEN "editReply" ELSE "reply",
              !.finals = @ + 2]

\* Variant: the final content always goes out as an edit.
Respond_AlwaysEdit(r, content) ==
    [r EXCEPT !.pc = "respond", !.content = content,
              !.via = "editReply", !.finals = @ + 1]

\* bot.js:369-377, 380-384, 389-393, 404-408, 412-416: the final content goes
\* out as an edit of the deferred reply when interaction.deferred is set,
\* and as a plain reply otherwise.
Respond(r, content) ==
    [r EXCEPT !.pc = "respond", !.content = content,
              !.via = IF r.deferred THEN "editReply" ELSE "reply",
              !.finals = @ + 1]

\* Variant: the token is not checked and the fetch goes out regardless.
StartStatus_FetchAnyway(r, tokenOk) ==
    [r EXCEPT !.pc = "statusFetch", !.tokenEmpty = ~tokenOk]

\* Variant: the error of an empty token escapes the handler unanswered.
StartStatus_Unanswered(r, tokenOk) ==
    IF tokenOk THEN [r EXCEPT !.pc = "statusFetch"]
    ELSE [r EXCEPT !.pc = "done", !.tokenEmpty = TRUE]

\* getLatestCommit up to its fetch (bot.js:217-242), called from bot.js:361:
\* an empty cleaned token throws, which the status branch answers with its
\* failure message (bot.js:386-393).
StartStatus(r, tokenOk) ==
    IF tokenOk THEN [r EXCEPT !.pc = "statusFetch"]
    ELSE Respond([r EXCEPT !.tokenEmpty = TRUE], "fetchfailed")

\* testDiversionAPI up to its first fetch (bot.js:278-298), called from
\* bot.js:399: an empty cleaned token makes it return a failure result.
StartTest(r, tokenOk) ==
    IF tokenOk THEN [r EXCEPT !.pc = "testRepos"]
    ELSE Respond([r EXCEPT !.tokenEmpty = TRUE], "testfailed")

\* The promise of the handler settles.
SettleCmd(i, r) ==
    /\ cmd' = [cmd EXCEPT ![i] = r]
    /\ crashed' = (crashed \/ r.threw)
    /\ UNCHANGED <<lastCommitId, tick, readyPc, timers, elsewhere>>

\* bot.js:340-357: an interaction arrives.  One that is no chat-input
\* command returns at once; status and test defer the reply first; ping
\* replies; any other command falls through the switch.
InteractionCreate(i, chatInput, name) ==
    /\ ~crashed
    /\ readyPc # "waiting"
    /\ cmd[i].pc = "idle"
    /\ \A j \in InteractionIds : j < i => cmd[j].pc # "idle"
    /\ LET r == [cmd[i] EXCEPT !.name = IF chatInput THEN name ELSE "none"] IN
         IF ~chatInput THEN SettleCmd(i, [r EXCEPT !.pc = "done"])
         ELSE IF name \in {"status", "test"} THEN SettleCmd(i, [r EXCEPT !.pc = "defer"])
         ELSE IF name = "ping"
         THEN SettleCmd(i, [r EXCEPT !.pc = "respond", !.content = "pong",
                                      !.via = "reply", !.finals = @ + 1])
         ELSE SettleCmd(i, [r EXCEPT !.pc = "done"])

\* bot.js:346-352, 359-361, 397-399: deferReply settles; a rejection is
\* logged and the handler continues either way into its command.
DeferSettled(i) ==
    /\ ~crashed
    /\ cmd[i].pc = "defer"
    /\ \E ok \in BOOLEAN, tokenOk \in BOOLEAN :
         LET r == [cmd[i] EXCEPT !.deferred = ok] IN
           IF r.name = "status" THEN SettleCmd(i, StartStatus(r, tokenOk))
           ELSE SettleCmd(i, StartTest(r, tokenOk))

\* bot.js:242-243: the fetch of getLatestCommit settles.
StatusFetchSettled(i, B) ==
    /\ ~crashed
    /\ cmd[i].pc = "statusFetch"
    /\ \/ SettleCmd(i, Respond(cmd[i], "fetchfailed"))
       \/ \E s \in Statuses, b \in B :
            SettleCmd(i, [cmd[i] EXCEPT !.pc = "statusText", !.status = s, !.body = b])

\* bot.js:243-275, 362-393: the body text arrives; a non-success status, a
\* body that does not parse and a null document throw; otherwise the first
\* commit, when there is one and it is truthy, is formatted and sent.
StatusTextSettled(i) ==
    /\ ~crashed
    /\ cmd[i].pc = "statusText"
    /\ LET r == cmd[i]
           c == ExtractCommits(r.body)
       IN
         IF r.body.tag = "aborted" \/ ~ResOk(r.status) \/ r.body.tag = "invalid"
         THEN SettleCmd(i, Respond(r, "fetchfailed"))
         ELSE IF c = Thrown
         THEN SettleCmd(i, Respond(r, "fetchfailed"))
         ELSE IF LengthPositive(c) /\ Truthy(Latest(c))
         THEN SettleCmd(i, Respond(r, "status"))
         ELSE SettleCmd(i, Respond(r, "nocommits"))

\* bot.js:298-299: the fetch of the repository list settles.
TestReposSettled(i) ==
    /\ ~crashed
    /\ cmd[i].pc = "testRepos"
    /\ \/ SettleCmd(i, Respond(cmd[i], "testfailed"))
       \/ \E s \in Statuses, b \in ReposBodies :
            SettleCmd(i, [cmd[i] EXCEPT !.pc = "testReposText", !.status = s, !.repos = b])

\* bot.js:299-312: the repository list is read, checked and parsed, and the
\* commits endpoint fetched.
TestReposTextSettled(i) ==
    /\ ~crashed
    /\ cmd[i].pc = "testReposText"
    /\ IF cmd[i].repos \in {"aborted", "invalid"} \/ ~ResOk(cmd[i].status)
       THEN SettleCmd(i, Respond(cmd[i], "testfailed"))
       ELSE SettleCmd(i, [cmd[i] EXCEPT !.pc = "testRepo", !.status = 0])

\* bot.js:312-313: the fetch of the commits endpoint settles.
TestRepoSettled(i, B) ==
    /\ ~crashed
    /\ cmd[i].pc = "testRepo"
    /\ \/ SettleCmd(i, Respond(cmd[i], "testfailed"))
       \/ \E s \in Statuses, b \in B :
            SettleCmd(i, [cmd[i] EXCEPT !.pc = "testRepoText", !.status = s, !.body = b])

\* bot.js:313-336, 400-416: the commits are read, checked and parsed; on
\* success the repositories are listed, which throws when the repository
\* list is no array (bot.js:401) and is answered by the inner catch.
TestRepoTextSettled(i) ==
    /\ ~crashed
    /\ cmd[i].pc = "testRepoText"
    /\ IF cmd[i].body.tag \in {"aborted", "invalid"} \/ ~ResOk(cmd[i].status)
       THEN SettleCmd(i, Respond(cmd[i], "testfailed"))
       ELSE IF cmd[i].repos = "array"
       THEN SettleCmd(i, Respond(cmd[i], "testok"))
       ELSE SettleCmd(i, Respond(cmd[i], "testerror"))

\* bot.js:354-357, 370-393, 405-418: the reply or the edit settles; a
\* rejection is logged by its own catch.
RespondSettled(i) ==
    /\ ~crashed
    /\ cmd[i].pc = "respond"
    /\ \/ SettleCmd(i, [cmd[i] EXCEPT !.pc = "done",
                                      !.replied = (cmd[i].via = "reply")])
       \/ SettleCmd(i, [cmd[i] EXCEPT !.pc = "done"])

Commands(B) ==
    \/ \E i \in InteractionIds, chatInput \in BOOLEAN, name \in CommandNames :
         InteractionCreate(i, chatInput, name)
    \/ \E i \in InteractionIds : DeferSettled(i)
    \/ \E i \in InteractionIds : StatusFetchSettled(i, B)
    \/ \E i \in InteractionIds : StatusTextSettled(i)
    \/ \E i \in InteractionIds : TestReposSettled(i)
    \/ \E i \in InteractionIds : TestReposTextSettled(i)
    \/ \E i \in InteractionIds : TestRepoSettled(i, B)
    \/ \E i \in InteractionIds : TestRepoTextSettled(i)
    \/ \E i \in InteractionIds : RespondSettled(i)

Poll(B, n) ==
    \/ TimerFire(n)
    \/ \E t \in TickIds : FetchSettled(t, B)
    \/ \E t \in TickIds : TextSettled(t)
    \/ \E t \in TickIds : JsonSettled(t)
    \/ \E t \in TickIds : LookupSettled(t)
    \/ \E t \in TickIds : SendSettled(t)

Next == Ready \/ Poll(CoreBodies, MaxTicks)

Spec == Init /\ [][Next]_vars

NextShapes == Ready \/ Poll(AllBodies, MaxShapeTicks)

SpecShapes == Init /\ [][NextShapes]_vars

\* The poller and the commands together.
NextBot == Ready \/ Poll(AllBodies, MaxBotTicks) \/ Commands(CoreBodies)

SpecBot == Init /\ [][NextBot]_vars

(***************************************************************************)
(* Vocabulary of the properties.  These read the recorded response of a    *)
(* tick; none of them uses the operators that model the code.              *)
(***************************************************************************)

\* The fetch of tick t resolved with a success status.
FetchOk(t) == tick[t].status >= 200 /\ tick[t].status <= 299

\* The fetch of tick t resolved with a non-success status.
HttpError(t) == tick[t].status # 0 /\ ~FetchOk(t)

\* Tick t received a non-empty commit list.
GotList(t) == FetchOk(t) /\ CommitList(tick[t].body)

\* Tick t has compared the head of its list with the stored id.
Compared(t) == tick[t].seen # NotRead

\* The delivery of tick t failed: no channel, or a rejected lookup or send.
DeliveryFailed(t) ==
    tick[t].pc = "done" /\ tick[t].outcome \in {"lookuperr", "nochannel", "senderr"}

\* Tick u was started after tick t had completed.
StartedAfter(u, t) == t < u /\ tick[u].pc # "idle" /\ tick[u].quiet

\* The upstream head has not moved since tick t fetched it: every body
\* fetched since carried a list with the same head.
HeadRemains(t) == tick[t].steady

\* Tick t has completed and ran alone: no tick was in flight when it
\* started and none started before it had completed.
RanAlone(t) ==
    /\ tick[t].pc = "done"
    /\ tick[t].quiet
    /\ (t + 1 \in TickIds /\ tick[t + 1].pc # "idle") => tick[t + 1].quiet

\* The step is the one in which tick t leaves the await of res.json().
Compares(t) == tick[t].pc = "json" /\ tick'[t].pc # "json"

(***************************************************************************)
(* C1.  A tick that receives a non-empty commit list whose head id differs *)
(* from the stored id.                                                     *)
(***************************************************************************)

\* C1 as stated: every completed tick that received a non-empty commit list
\* whose head id differed from the stored last-seen id has made exactly one
\* channel.send call.
C1_ExactlyOneSend ==
    \A t \in TickIds :
        (tick[t].pc = "done" /\ GotList(t) /\ Compared(t)
            /\ HeadId(tick[t].body) # tick[t].seen)
        => tick[t].sends = 1

\* C1 amended: such a tick stores the head id as the last-seen id in the
\* step of the comparison and goes on to look the channel up; it makes
\* exactly one channel.send call when the lookup yields a channel, and none
\* when the lookup rejects or yields no channel.
C1_StoresAndSendsIfChannel ==
    /\ [](\A t \in TickIds :
            (GotList(t) /\ Compared(t) /\ HeadId(tick[t].body) # tick[t].seen)
            => /\ tick[t].pc \in {"lookup", "send", "done"}
               /\ tick[t].pc = "done" =>
                    tick[t].outcome \in {"lookuperr", "nochannel", "sent", "senderr"}
               /\ tick[t].sends =
                    IF tick[t].pc = "lookup"
                          \/ tick[t].outcome \in {"lookuperr", "nochannel"}
                    THEN 0 ELSE 1)
    /\ [][\A t \in TickIds :
            (Compares(t) /\ GotList(t) /\ HeadId(tick[t].body) # lastCommitId)
            => /\ lastCommitId' = HeadId(tick[t].body)
               /\ tick'[t].pc = "lookup"
               /\ tick'[t].seen = lastCommitId]_vars

\* A tick found a new head, stored it and made its one send call.
C1_Witness ==
    \E t \in TickIds :
        /\ tick[t].pc = "done" /\ GotList(t) /\ Compared(t)
        /\ HeadId(tick[t].body) # tick[t].seen
        /\ tick[t].seen # Null
        /\ tick[t].sends = 1
        /\ lastCommitId = HeadId(tick[t].body)

(***************************************************************************)
(* C2.  A tick that receives a commit list whose head id equals the stored *)
(* id.                                                                     *)
(***************************************************************************)

\* C2: a tick whose list's head id equals the stored last-seen id makes no
\* channel.send call, completes at the comparison, and leaves the stored id
\* unchanged.
C2_SameHeadNoSend ==
    /\ [](\A t \in TickIds :
            (GotList(t) /\ Compared(t) /\ HeadId(tick[t].body) = tick[t].seen)
            => tick[t].sends = 0 /\ tick[t].pc = "done")
    /\ [][\A t \in TickIds :
            (Compares(t) /\ GotList(t) /\ HeadId(tick[t].body) = lastCommitId)
            => /\ lastCommitId' = lastCommitId
               /\ tick'[t].pc = "done"
               /\ tick'[t].sends = 0
               /\ tick'[t].seen = lastCommitId]_vars

\* A tick received the head that was already stored and sent nothing.
C2_Witness ==
    \E t \in TickIds :
        /\ tick[t].pc = "done" /\ GotList(t) /\ Compared(t)
        /\ HeadId(tick[t].body) = tick[t].seen
        /\ tick[t].sends = 0
        /\ lastCommitId = tick[t].seen

(***************************************************************************)
(* C3.  Two ticks in succession against the same response.                 *)
(***************************************************************************)

\* Ticks t and t + 1 ran one after the other, each alone, and received the
\* same successful response.
InSuccession(t) ==
    /\ t + 1 \in TickIds
    /\ RanAlone(t) /\ RanAlone(t + 1)
    /\ FetchOk(t) /\ FetchOk(t + 1)
    /\ tick[t].body = tick[t + 1].body

\* C3 as stated: two ticks in succession against the same response, here
\* one carrying a non-empty commit list, produce exactly one notification,
\* sent by the first, whatever the stored id was.
C3_ExactlyOneInTotal ==
    \A t \in TickIds :
        (InSuccession(t) /\ GotList(t))
        => tick[t].sends = 1 /\ tick[t + 1].sends = 0

\* C3 amended: two ticks in succession against the same response produce at
\* most one notification and the second sends none; when the response
\* carries a non-empty commit list, the first sends one exactly when the
\* head id differed from the stored id and the channel lookup yielded a
\* channel.
C3_AtMostOneNoneBySecond ==
    \A t \in TickIds :
        InSuccession(t) =>
            /\ tick[t + 1].sends = 0
            /\ tick[t].sends <= 1
            /\ GotList(t) =>
                 /\ tick[t + 1].seen = HeadId(tick[t].body)
                 /\ tick[t].sends =
                      IF HeadId(tick[t].body) # tick[t].seen
                            /\ tick[t].outcome \notin {"lookuperr", "nochannel"}
                      THEN 1 ELSE 0

\* Two ticks in succession received the same list; the first notified its
\* head and the second sent nothing.
C3_Witness ==
    \E t \in TickIds :
        /\ InSuccession(t) /\ GotList(t)
        /\ tick[t].seen # Null
        /\ tick[t].sends = 1 /\ tick[t + 1].sends = 0

(***************************************************************************)
(* C5.  Notifications per commit id over a process lifetime.               *)
(***************************************************************************)

\* No fetch has failed so far: every settled fetch had a success status and
\* a body that parsed.
EveryFetchSucceeded ==
    \A t \in TickIds :
        tick[t].outcome \notin {"neterr", "httperr", "texterr", "parseerr", "typeerr"}

\* The number of channel.send calls made for commit id i.
SendCount(i) ==
    Cardinality({t \in TickIds :
        tick[t].sends > 0 /\ GotList(t) /\ HeadId(tick[t].body) = i})

\* C5 as stated: while every fetch succeeds, at most one notification is
\* sent for each commit id.
C5_OncePerId ==
    EveryFetchSucceeded => \A i \in CommitIds : SendCount(i) <= 1

\* C5 amended: at most one notification is sent per change of the stored
\* id.  A tick sends at most once, and only for a head id that it found
\* different from the stored id and stored in the same step; an id is
\* notified again only after the stored id has held another value.
C5_OncePerChange ==
    /\ [](\A t \in TickIds :
            /\ tick[t].sends <= 1
            /\ (tick[t].sends = 1 \/ tick[t].pc \in {"lookup", "send"}) =>
                 /\ GotList(t) /\ Compared(t)
                 /\ HeadId(tick[t].body) # tick[t].seen)
    /\ [][\A t \in TickIds :
            (Compares(t) /\ tick'[t].pc = "lookup")
            => /\ lastCommitId # HeadId(tick[t].body)
               /\ lastCommitId' = HeadId(tick[t].body)
               /\ tick'[t].seen = lastCommitId]_vars
    /\ [][\A t \in TickIds :
            tick'[t].sends # tick[t].sends
            => tick[t].pc = "lookup" /\ tick'[t].sends = tick[t].sends + 1]_vars

\* One id was notified twice, by two ticks between which the stored id held
\* another value.
C5_Witness ==
    \E t, u \in TickIds :
        /\ t < u
        /\ EveryFetchSucceeded
        /\ tick[t].sends = 1 /\ tick[u].sends = 1
        /\ GotList(t) /\ GotList(u)
        /\ HeadId(tick[t].body) = HeadId(tick[u].body)
        /\ tick[u].seen # HeadId(tick[u].body)

(***************************************************************************)
(* C4.  A non-success HTTP status.                                         *)
(***************************************************************************)

\* C4: a tick whose fetch resolved with a non-success status never throws,
\* never reaches the comparison or the dispatcher, and none of its steps
\* changes the stored id.
C4_HttpErrorNoOp ==
    /\ [](\A t \in TickIds :
            HttpError(t) =>
                /\ tick[t].pc \in {"text", "done"}
                /\ tick[t].sends = 0
                /\ ~Compared(t)
                /\ ~tick[t].threw
                /\ ~crashed)
    /\ [][\A t \in TickIds :
            (HttpError(t)' /\ tick'[t] # tick[t]) => lastCommitId' = lastCommitId]_vars

\* A tick completed on a status 500 while a commit id was stored.
C4_Witness ==
    \E t \in TickIds :
        /\ tick[t].pc = "done" /\ tick[t].status = 500
        /\ tick[t].outcome = "httperr"
        /\ lastCommitId \in CommitIds

(***************************************************************************)
(* C6.  Where the stored id changes.                                       *)
(***************************************************************************)

\* C6: the stored last-seen id changes only in the comparison step of a
\* tick whose fetch succeeded with a non-empty list, to the id of the list's
\* first element, and only when that id differs from the stored one; no
\* step of the interaction handler or of the ready handler changes it.
C6_ChangesOnlyOnNewHead ==
    [][/\ lastCommitId' # lastCommitId =>
            \E t \in TickIds :
                /\ Compares(t) /\ FetchOk(t)
                /\ HasList(tick[t].body) /\ Len(ListOf(tick[t].body)) > 0
                /\ ListOf(tick[t].body)[1].id # lastCommitId
                /\ lastCommitId' = ListOf(tick[t].body)[1].id
       /\ (cmd' # cmd \/ readyPc' # readyPc) => lastCommitId' = lastCommitId]_vars

(***************************************************************************)
(* C7.  A tick never propagates an exception.                              *)
(***************************************************************************)

Failures ==
    {"neterr", "texterr", "parseerr", "typeerr", "lookuperr", "senderr"}

\* C7: whatever fails inside a tick, its call completes normally, the
\* process keeps running and the interval stays installed, so that the
\* timer can fire later ticks.
C7_TickNeverThrows ==
    /\ ~crashed
    /\ \A t \in TickIds : ~tick[t].threw
    /\ Started # {} => timers > 0

\* A tick failed in its delivery and a later tick was fired after it.
C7_Witness ==
    \E t, u \in TickIds :
        /\ u = t + 1
        /\ tick[t].pc = "done" /\ tick[t].outcome \in Failures
        /\ tick[u].quiet /\ tick[u].pc = "done" /\ tick[u].outcome \in Failures
        /\ tick[t].outcome # tick[u].outcome
        /\ ~crashed

(***************************************************************************)
(* C8.  A successful response that resolves to an empty commit list.       *)
(***************************************************************************)

EmptyShapes == {JArray(<<>>), JObject(Arr(<<>>)), JObject(Undef)}

\* C8: a tick that received a bare empty array, an object with an empty
\* commits array or an object without a commits field completes at the
\* length test: it sends nothing and leaves the stored id unchanged.
C8_EmptyListNoOp ==
    /\ [](\A t \in TickIds :
            (FetchOk(t) /\ tick[t].body \in EmptyShapes) =>
                /\ tick[t].pc \in {"json", "done"}
                /\ tick[t].sends = 0
                /\ ~Compared(t)
                /\ ~tick[t].threw)
    /\ [][\A t \in TickIds :
            (Compares(t) /\ FetchOk(t) /\ tick[t].body \in EmptyShapes)
            => lastCommitId' = lastCommitId /\ tick'[t].pc = "done"]_vars

\* A tick completed on an object without a commits field while a commit id
\* was stored.
C8_Witness ==
    \E t \in TickIds :
        /\ tick[t].pc = "done" /\ FetchOk(t)
        /\ tick[t].body = JObject(Undef)
        /\ tick[t].outcome = "empty"
        /\ lastCommitId \in CommitIds

(***************************************************************************)
(* C9.  A successful response from which no commit list can be extracted.  *)
(***************************************************************************)

Unextractable ==
    { InvalidJson, JNull, JScalar,
      JObject(Str(<<ScalarElem, ScalarElem, ScalarElem>>)), JObject(Num),
      JArray(<<ScalarElem>>), JArray(<<NullElem>>) }

\* C9: a tick whose body is not JSON, or is JSON with no commit list in it,
\* sends nothing and leaves the stored id unchanged.
C9_NoListNoOp ==
    [][\A t \in TickIds :
        (Compares(t) /\ FetchOk(t) /\ tick[t].body \in Unextractable)
        => /\ lastCommitId' = lastCommitId
           /\ tick'[t].pc = "done"
           /\ tick'[t].sends = 0]_vars

(***************************************************************************)
(* C10.  A delivery failure is dropped.                                    *)
(***************************************************************************)

\* C10 as stated: after a tick's delivery of head X failed, no tick started
\* later sends a notification for X while the upstream head remains X.
C10_NeverSentLater ==
    \A t, u \in TickIds :
        (DeliveryFailed(t) /\ StartedAfter(u, t) /\ HeadRemains(t))
        => tick[u].sends = 0

\* C10 for ticks that do not overlap: the failing tick ends without
\* throwing, having stored X in the step of the comparison, and makes no
\* further call; and when it and the ticks after it each ran alone, none
\* of these sends a notification for X while the upstream head remains X.
C10_DroppedWhenSerial ==
    /\ [](\A t \in TickIds :
            DeliveryFailed(t) =>
                /\ ~tick[t].threw /\ ~crashed
                /\ Compared(t) /\ tick[t].seen # HeadId(tick[t].body)
                /\ tick[t].sends = IF tick[t].outcome = "senderr" THEN 1 ELSE 0)
    /\ [][\A t \in TickIds :
            (Compares(t) /\ tick'[t].pc = "lookup")
            => lastCommitId' = HeadId(tick[t].body)]_vars
    /\ [](\A t, u \in TickIds :
            (DeliveryFailed(t) /\ StartedAfter(u, t) /\ HeadRemains(t)
                /\ (\A v \in TickIds : (t <= v /\ v <= u) => RanAlone(v)))
            => tick[u].sends = 0 /\ (Compared(u) => tick[u].outcome = "same"))

\* The delivery of a head failed, and the next tick, run after it against
\* the same head, sent nothing.
C10_Witness ==
    \E t, u \in TickIds :
        /\ u = t + 1
        /\ DeliveryFailed(t) /\ StartedAfter(u, t) /\ HeadRemains(t)
        /\ RanAlone(t) /\ RanAlone(u)
        /\ tick[u].outcome = "same"
        /\ lastCommitId = HeadId(tick[t].body)

(***************************************************************************)
(* C11.  The first comparison of a process lifetime.                       *)
(***************************************************************************)

\* No tick has compared a head with the stored id yet.
NoneCompared == \A u \in TickIds : ~Compared(u)

\* C11: while the stored id is still the null of process start, the first
\* tick that receives a non-empty commit list finds the head different
\* whatever its id is, stores that id and goes on to the dispatcher.
C11_FirstHeadAlwaysNew ==
    [][\A t \in TickIds :
        (Compares(t) /\ GotList(t) /\ NoneCompared /\ lastCommitId = Null)
        => /\ tick'[t].pc = "lookup"
           /\ tick'[t].seen = Null
           /\ lastCommitId' = HeadId(tick[t].body)]_vars

(***************************************************************************)
(* The interaction handler on its own.  Every promise the handler awaits   *)
(* settles in the end, resolved or rejected: weak fairness of each of its  *)
(* continuations.                                                          *)
(***************************************************************************)
\* The bodies of the polling specification, and a null document.
CmdBodies == CoreBodies \cup {JNull}

NextCmd == Ready \/ Commands(CmdBodies)

CmdFairness ==
    \A i \in InteractionIds :
        /\ WF_vars(DeferSettled(i))
        /\ WF_vars(StatusFetchSettled(i, CmdBodies))
        /\ WF_vars(StatusTextSettled(i))
        /\ WF_vars(TestReposSettled(i))
        /\ WF_vars(TestReposTextSettled(i))
        /\ WF_vars(TestRepoSettled(i, CmdBodies))
        /\ WF_vars(TestRepoTextSettled(i))
        /\ WF_vars(RespondSettled(i))

SpecCmd == Init /\ [][NextCmd]_vars /\ CmdFairness

\* The API call of interaction i got a success status and a body that is
\* JSON; it failed when the fetch rejected, the status was no success, or
\* the body could not be read or parsed.
CmdFetchOk(i) ==
    /\ cmd[i].status >= 200 /\ cmd[i].status <= 299
    /\ cmd[i].body.tag \notin {"invalid", "aborted", "none"}

\* Interaction i has issued its final response.
Answered(i) == cmd[i].finals > 0

(***************************************************************************)
(* C12.  The status command always answers.                                *)
(***************************************************************************)

StatusContents == {"status", "nocommits", "fetchfailed"}

\* C12: every status command leads to one reply or editReply call; its
\* content is the formatted commit for a non-empty commit list, the
\* no-commits message for an empty list, and the failure message, which is
\* neither of these, whenever the fetch rejected, the status was no success
\* or the body was not JSON, whether or not the deferral had succeeded.
C12_StatusAlwaysReplies ==
    /\ \A i \in InteractionIds :
          (cmd[i].name = "status")
          ~> (Answered(i) /\ cmd[i].content \in StatusContents)
    /\ [](\A i \in InteractionIds :
            (cmd[i].name = "status" /\ Answered(i)) =>
                /\ cmd[i].finals = 1
                /\ cmd[i].via \in {"reply", "editReply"}
                /\ cmd[i].content \in StatusContents
                /\ ~CmdFetchOk(i) => cmd[i].content = "fetchfailed"
                /\ (CmdFetchOk(i) /\ CommitList(cmd[i].body))
                      => cmd[i].content = "status"
                /\ (CmdFetchOk(i) /\ cmd[i].body \in EmptyShapes)
                      => cmd[i].content = "nocommits")

\* A status command whose deferral failed and whose fetch returned a body
\* that is not JSON has answered with the failure message in a plain reply.
C12_Witness ==
    \E i \in InteractionIds :
        /\ cmd[i].name = "status" /\ cmd[i].pc = "done"
        /\ ~cmd[i].deferred
        /\ cmd[i].status = 200 /\ cmd[i].body = InvalidJson
        /\ cmd[i].finals = 1 /\ cmd[i].via = "reply"
        /\ cmd[i].content = "fetchfailed"

(***************************************************************************)
(* C13.  The deferred acknowledgement of status and test.                  *)
(***************************************************************************)

\* The positions at which an upstream API call is awaited.
UpstreamPcs ==
    {"statusFetch", "statusText", "testRepos", "testReposText",
     "testRepo", "testRepoText"}

\* C13: status and test await deferReply before anything else, and no
\* upstream call is issued before it has settled; the final content goes
\* out by editReply when the deferral succeeded and by reply when it
\* failed; either way the handler answers, runs to its end, and never
\* rejects.
C13_DeferThenEditOrReply ==
    /\ [][\A i \in InteractionIds :
            /\ (cmd[i].pc = "idle" /\ cmd'[i].name \in {"status", "test"})
                  => cmd'[i].pc = "defer"
            /\ (cmd[i].pc \notin UpstreamPcs /\ cmd'[i].pc \in UpstreamPcs)
                  => cmd[i].pc = "defer"]_vars
    /\ [](\A i \in InteractionIds :
            /\ ~cmd[i].threw
            /\ cmd[i].pc \in {"idle", "defer"} => ~Answered(i)
            /\ (cmd[i].name \in {"status", "test"} /\ Answered(i)) =>
                  /\ cmd[i].finals = 1
                  /\ cmd[i].via = IF cmd[i].deferred THEN "editReply" ELSE "reply")
    /\ [](~crashed)
    /\ \A i \in InteractionIds :
          (cmd[i].name \in {"status", "test"})
          ~> (cmd[i].pc = "done" /\ Answered(i))

\* A test command whose deferral failed went on to both API calls and
\* delivered its result in a plain reply.
C13_Witness ==
    \E i \in InteractionIds :
        /\ cmd[i].name = "test" /\ cmd[i].pc = "done"
        /\ ~cmd[i].deferred
        /\ cmd[i].content = "testok"
        /\ cmd[i].finals = 1 /\ cmd[i].via = "reply" /\ cmd[i].replied

(***************************************************************************)
(* Module evaluation, bot.js:11-83 and 454                                 *)
(***************************************************************************)

\* bot.js:55  !process.env[envVar]: absent and the empty string are falsy.
Missing(e, v) == e[v] # "set"

\* Variant: startup fails only when every required variable is missing.
ValidationFails_OnlyAll(e) ==
    \A k \in DOMAIN requiredEnvVars : Missing(e, requiredEnvVars[k])

\* bot.js:54-59: the loop exits on the first required variable missing.
ValidationFails(e) ==
    \E k \in DOMAIN requiredEnvVars : Missing(e, requiredEnvVars[k])

\* The process before its module is evaluated, under any environment.
InitBoot ==
    /\ lastCommitId = Null
    /\ tick = [t \in TickIds |-> NewTick]
    /\ cmd = [i \in InteractionIds |-> NewInteraction]
    /\ readyPc = "waiting"
    /\ timers = 0
    /\ crashed = FALSE
    /\ env \in [EnvVars -> EnvValues]
    /\ proc = "loading"
    /\ exitCode = 0
    /\ listening = FALSE
    /\ conn = "none"
    /\ logins = 0
    /\ latest = NoRecord
    /\ commitMessage = NotFormatted
    /\ TokenConfigured(IF env["DIVERSION_BEARER_TOKEN"] = "absent" THEN UndefinedToken
                       ELSE IF env["DIVERSION_BEARER_TOKEN"] = "empty" THEN <<>>
                       ELSE PlainToken)

\* bot.js:11-83, 454: the server is created and told to listen, the
\* defaults are applied, and the required variables validated; on a missing
\* one the process exits with status 1, otherwise the client is constructed
\* and login called.
Load ==
    /\ proc = "loading"
    /\ listening' = TRUE
    /\ IF ValidationFails(env)
       THEN /\ proc' = "exited"
            /\ exitCode' = 1
            /\ UNCHANGED <<conn, logins>>
       ELSE /\ proc' = "running"
            /\ conn' = "starting"
            /\ logins' = 1
            /\ UNCHANGED exitCode
    /\ UNCHANGED <<lastCommitId, tick, readyPc, timers, crashed, cmd, env, pureVars>>

\* bot.js:454: the first login rejects, and nothing handles the rejection.
LoginRejected ==
    /\ ~crashed
    /\ conn = "starting"
    /\ crashed' = TRUE
    /\ UNCHANGED <<lastCommitId, tick, readyPc, timers, cmd, elsewhere>>

NextBoot == Load \/ LoginRejected \/ Ready

SpecBoot == InitBoot /\ [][NextBoot]_vars

(***************************************************************************)
(* C14.  Startup validation.                                               *)
(***************************************************************************)

\* The eight settings the claim lists.
ListedSettings ==
    {"DISCORD_TOKEN", "CHANNEL_ID", "CLIENT_ID", "GUILD_ID",
     "DIVERSION_BASE_URL", "DIVERSION_REPO_NAME", "DIVERSION_WORKSPACE",
     "DIVERSION_BEARER_TOKEN"}

\* The seven settings without a default.
SettingsWithoutDefault ==
    {"DISCORD_TOKEN", "CHANNEL_ID", "CLIENT_ID", "GUILD_ID", "DIVERSION_ORG",
     "DIVERSION_REPO_NAME", "DIVERSION_BEARER_TOKEN"}

Exited == proc = "exited"

\* C14 as stated: once the module has been evaluated, the process has
\* exited with a non-zero status whenever one of the eight listed settings
\* is absent.
C14_ExitsOnAnyListedAbsent ==
    (proc # "loading" /\ \E v \in ListedSettings : env[v] = "absent")
    => (Exited /\ exitCode # 0)

\* C14 amended: the process has exited, with status 1 and before any login,
\* exactly when one of the seven settings without a default (organisation
\* included) is absent or empty; an absent base URL or workspace does not
\* stop it, and the process goes on to construct the client and log in.
C14_ExitsOnRequiredAbsent ==
    proc # "loading" =>
        IF \E v \in SettingsWithoutDefault : env[v] \in {"absent", "empty"}
        THEN Exited /\ exitCode = 1 /\ conn = "none" /\ logins = 0
        ELSE proc = "running" /\ exitCode = 0 /\ logins = 1

\* The process has exited with status 1 under an environment in which only
\* the organisation is absent.
C14_Witness ==
    /\ Exited /\ exitCode = 1
    /\ env["DIVERSION_ORG"] = "absent"
    /\ \A v \in EnvVars \ {"DIVERSION_ORG"} : env[v] = "set"

(***************************************************************************)
(* The notification text, bot.js:116-120                                   *)
(***************************************************************************)

\* A field of the commit record: absent (undefined), the empty string, or a
\* text of its own.
FieldValues(own) == {Undefined, "", own}

CommitRecords ==
    [author_name : FieldValues("Ann"), author : FieldValues("ann"),
     commit_message : FieldValues("Fix"), message : FieldValues("fix"),
     branch : FieldValues("dev"), workspace : FieldValues("ws1")]

\* undefined and the empty string are falsy.
Falsy(v) == v \in {Undefined, ""}

\* Variant: the left operand is taken whatever it is.
OrElse_Left(a, b) == a

\* a || b
OrElse(a, b) == IF Falsy(a) THEN b ELSE a

\* ${v} in a template literal: undefined is written out as 'undefined'.
Interpolated(v) == IF v = Undefined THEN "undefined" ELSE v

\* bot.js:116-120: the four values placed after 'Author: ', 'Message: ',
\* 'Branch: ' and 'Workspace: '.
CommitMessage(l) ==
    [author |-> Interpolated(OrElse(l.author_name, l.author)),
     message |-> Interpolated(OrElse(l.commit_message, l.message)),
     branch |-> Interpolated(OrElse(l.branch, "main")),
     workspace |-> Interpolated(OrElse(l.workspace, "N/A"))]

\* Any commit record reaches the formatter.
InitFormat ==
    /\ lastCommitId = Null
    /\ tick = [t \in TickIds |-> NewTick]
    /\ cmd = [i \in InteractionIds |-> NewInteraction]
    /\ readyPc = "waiting"
    /\ timers = 0
    /\ crashed = FALSE
    /\ env = Configured
    /\ proc = "running"
    /\ exitCode = 0
    /\ listening = TRUE
    /\ conn = "starting"
    /\ logins = 1
    /\ latest \in CommitRecords
    /\ commitMessage = NotFormatted
    /\ TokenConfigured(PlainToken)

\* bot.js:116-120: the message is built from latest.
FormatCommit ==
    /\ commitMessage = NotFormatted
    /\ commitMessage' = CommitMessage(latest)
    /\ UNCHANGED <<lastCommitId, tick, readyPc, timers, crashed, cmd,
                   hostVars, conn, logins, latest, tokenVars>>

NextFormat == FormatCommit

SpecFormat == InitFormat /\ [][NextFormat]_vars

(***************************************************************************)
(* C15.  The notification text of a record with fields missing.            *)
(***************************************************************************)

Formatted == commitMessage # NotFormatted

\* The record carries a text in field f.
Carries(f) == latest[f] \notin {Undefined, ""}

\* C15: the formatter produces a text for every record, with or without
\* branch and workspace.  The text shows the author (author_name, or
\* author when there is no author_name) and the message (commit_message, or
\* message); it shows 'main' when branch is absent and 'N/A' when workspace
\* is absent, an empty string counting as absent; and it shows the record's
\* own branch and workspace when it carries them.
C15_PlaceholdersForMissing ==
    /\ [][commitMessage' # NotFormatted]_commitMessage
    /\ [](Formatted =>
            /\ Carries("author_name") => commitMessage.author = latest.author_name
            /\ (~Carries("author_name") /\ Carries("author"))
                  => commitMessage.author = latest.author
            /\ Carries("commit_message")
                  => commitMessage.message = latest.commit_message
            /\ (~Carries("commit_message") /\ Carries("message"))
                  => commitMessage.message = latest.message
            /\ commitMessage.branch =
                  IF Carries("branch") THEN latest.branch ELSE "main"
            /\ commitMessage.workspace =
                  IF Carries("workspace") THEN latest.workspace ELSE "N/A")

\* A record with author and message but neither branch nor workspace has
\* been formatted with both placeholders.
C15_Witness ==
    /\ Formatted
    /\ latest.author_name = "Ann" /\ latest.commit_message = "Fix"
    /\ latest.branch = Undefined /\ latest.workspace = Undefined
    /\ commitMessage =
         [author |-> "Ann", message |-> "Fix", branch |-> "main", workspace |-> "N/A"]

(***************************************************************************)
(* C16.  The stored id is written before the dispatcher is invoked.        *)
(***************************************************************************)

\* The step is the one in which tick t calls client.channels.fetch, and the
\* one in which it calls channel.send.
CallsLookup(t) == Compares(t) /\ tick'[t].pc = "lookup"
CallsSend(t) == tick[t].pc = "lookup" /\ tick'[t].pc = "send"

\* No tick was in flight when tick t started and none has started since.
AloneSoFar(t) ==
    tick[t].quiet /\ \A u \in TickIds : u > t => tick[u].pc = "idle"

\* Tick u has stored the head of its list.
HasStored(u) == Compared(u) /\ tick[u].seen # HeadId(tick[u].body)

\* C16 as stated: when a tick calls the channel lookup, and again when it
\* calls send, the stored id equals the id being notified.
C16_StoredAtLookupAndSend ==
    [][\A t \in TickIds :
        /\ CallsLookup(t) => lastCommitId' = HeadId(tick[t].body)
        /\ CallsSend(t) => lastCommitId = HeadId(tick[t].body)]_vars

\* C16 amended: the write happens in the step of the comparison, so that
\* the stored id equals the id being notified when the channel lookup is
\* called.  When send is called the write has been made, but the lookup was
\* awaited in between: the stored id is the id being notified or one that
\* an overlapping tick has stored since, and it is the id being notified
\* when no other tick overlapped.
C16_StoredBeforeLookup ==
    [][\A t \in TickIds :
        /\ CallsLookup(t) =>
              /\ lastCommitId # HeadId(tick[t].body)
              /\ lastCommitId' = HeadId(tick[t].body)
        /\ CallsSend(t) =>
              /\ HasStored(t)
              /\ \/ lastCommitId = HeadId(tick[t].body)
                 \/ \E u \in TickIds \ {t} :
                       HasStored(u) /\ lastCommitId = HeadId(tick[u].body)
              /\ AloneSoFar(t) => lastCommitId = HeadId(tick[t].body)]_vars

\* A tick that replaced an earlier id has called send while the stored id
\* is the one it notifies.
C16_Witness ==
    \E t \in TickIds :
        /\ tick[t].pc = "send" /\ tick[t].sends = 1
        /\ AloneSoFar(t)
        /\ tick[t].seen \in CommitIds
        /\ lastCommitId = HeadId(tick[t].body)

(***************************************************************************)
(* C17.  Two overlapping ticks that receive the same head.                 *)
(***************************************************************************)

\* Ticks t and t + 1 overlapped: nothing was in flight when t started, and
\* t was still in flight when t + 1 started.
Overlapped(t) ==
    /\ t + 1 \in TickIds
    /\ tick[t].quiet
    /\ tick[t + 1].pc # "idle" /\ ~tick[t + 1].quiet

\* Both ticks received a commit list with the same head and have compared
\* it, and the first of them to compare found it different from the stored
\* id.
SameNewHead(t) ==
    /\ GotList(t) /\ GotList(t + 1)
    /\ HeadId(tick[t].body) = HeadId(tick[t + 1].body)
    /\ Compared(t) /\ Compared(t + 1)
    /\ HasStored(t) \/ HasStored(t + 1)

\* C17: of two overlapping ticks that received the same head, different
\* from the stored id, exactly one stores it and goes on to the dispatcher;
\* the other stores nothing and sends nothing.
C17_ExactlyOneOfTwoStores ==
    \A t \in TickIds :
        (Overlapped(t) /\ SameNewHead(t)) =>
            /\ HasStored(t) # HasStored(t + 1)
            /\ ~HasStored(t) => tick[t].sends = 0
            /\ ~HasStored(t + 1) => tick[t + 1].sends = 0

(***************************************************************************)
(* C18.  The stored id after overlapping ticks.                            *)
(***************************************************************************)

\* Every tick started so far received a commit list, and all have completed.
AllCompletedWithList ==
    /\ Started # {}
    /\ InFlight = {}
    /\ \A t \in Started : GotList(t)

\* The tick whose fetch was issued last.
LastIssued == Largest(Started)

\* C18: once ticks whose fetches all succeeded have completed, in whatever
\* order their responses arrived, the stored id is the head returned to the
\* fetch issued last, and no commit id has been notified by more than one
\* tick.
C18_StoredIsNewestHead ==
    AllCompletedWithList =>
        /\ lastCommitId = HeadId(tick[LastIssued].body)
        /\ \A i \in CommitIds :
              Cardinality({t \in Started :
                  HasStored(t) /\ HeadId(tick[t].body) = i}) <= 1

(***************************************************************************)
(* The poller under fair scheduling: the interval keeps firing and every   *)
(* promise a tick awaits settles in the end.                               *)
(***************************************************************************)
NextRetry == Ready \/ Poll(CoreBodies, MaxRetryTicks)

RetryFairness ==
    /\ WF_vars(TimerFire(MaxRetryTicks))
    /\ \A t \in TickIds :
        /\ WF_vars(FetchSettled(t, CoreBodies))
        /\ WF_vars(TextSettled(t))
        /\ WF_vars(JsonSettled(t))
        /\ WF_vars(LookupSettled(t))
        /\ WF_vars(SendSettled(t))

SpecRetry == Init /\ [][NextRetry]_vars /\ RetryFairness

(***************************************************************************)
(* C19.  A failed tick leaves nothing behind.                              *)
(***************************************************************************)

\* The outcomes of a tick that failed before its comparison.
FetchFailures == {"neterr", "httperr", "texterr", "parseerr", "typeerr"}

\* Tick t has failed, before its comparison or in its delivery.
Failed(t) ==
    tick[t].pc = "done"
    /\ tick[t].outcome \in FetchFailures \cup {"lookuperr", "nochannel", "senderr"}

ReconnectCodes == {"ECONNRESET", "ECONNREFUSED"}
ErrorCodes == ReconnectCodes \cup {"OTHER"}

\* Variant: the ready handler is registered with on and runs at every ready.
OnceRegistered_On(pc) == TRUE

\* bot.js:137: the handler registered with once is removed when ready is
\* first emitted; it is still registered while it has not run.
OnceRegistered(pc) == pc = "waiting"

\* bot.js:449-452: the client emits disconnect and login is called again.
Disconnect(n) ==
    /\ ~crashed
    /\ conn = "ready"
    /\ logins < n
    /\ conn' = "connecting"
    /\ logins' = logins + 1
    /\ UNCHANGED <<lastCommitId, tick, readyPc, timers, crashed, cmd, hostVars, pureVars>>

\* bot.js:440-447: the client emits error; on a connection error login is
\* called again, also while the first login is still under way.
ClientError(code, n) ==
    /\ ~crashed
    /\ conn # "none"
    /\ IF code \in ReconnectCodes
       THEN /\ logins < n
            /\ logins' = logins + 1
            /\ conn' = IF conn = "starting" THEN "starting" ELSE "connecting"
       ELSE UNCHANGED <<conn, logins>>
    /\ UNCHANGED <<lastCommitId, tick, readyPc, timers, crashed, cmd, hostVars, pureVars>>

\* bot.js:445, 451: the repeated login settles.  When it completes the
\* client emits ready again, which runs the ready handler only if it is
\* still registered; a rejection is logged by .catch(console.error).
ReloginSettled ==
    /\ ~crashed
    /\ conn = "connecting"
    /\ \/ /\ conn' = "ready"
          /\ readyPc' = IF OnceRegistered(readyPc) THEN "put" ELSE readyPc
       \/ /\ conn' = "down"
          /\ UNCHANGED readyPc
    /\ UNCHANGED <<lastCommitId, tick, timers, crashed, cmd, hostVars, logins, pureVars>>

Connection ==
    \/ LoginRejected
    \/ Disconnect(MaxLogins)
    \/ \E code \in ErrorCodes : ClientError(code, MaxLogins)
    \/ ReloginSettled

\* The client over its lifetime, with the poller.  The registration and the
\* verification requests of the ready handler settle in the end.
NextLife == Ready \/ Connection \/ Poll(CoreBodies, MaxLifeTicks)

SpecLife ==
    Init /\ [][NextLife]_vars /\ WF_vars(PutSettled) /\ WF_vars(GetSettled)

(***************************************************************************)
(* C20.  One poll timer per process lifetime.                              *)
(***************************************************************************)

\* C20: there is never more than one interval; it is installed by the
\* ready handler, in the step that ends it, after the registration has
\* succeeded or failed, and once the handler has started it does get
\* installed; no tick starts before that; and no login call, repeated
\* login or later ready event installs an interval or runs the handler
\* again.
C20_ExactlyOneTimer ==
    /\ [](timers <= 1)
    /\ [](timers = 1 <=> readyPc = "done")
    /\ [](Started # {} => (readyPc = "done" /\ timers = 1))
    /\ [][timers' # timers =>
            /\ readyPc \in {"put", "get"} /\ readyPc' = "done"
            /\ timers = 0 /\ timers' = 1
            /\ logins' = logins /\ conn' = conn]_vars
    /\ [][(logins' # logins \/ (conn = "connecting" /\ conn' # conn)) =>
            /\ timers' = timers
            /\ readyPc' = readyPc]_vars
    /\ (readyPc # "waiting") ~> (timers = 1)

\* After a disconnect and a completed re-login the one interval installed
\* at the first ready is still the only one, and a tick of it has run.
C20_Witness ==
    /\ logins >= 2 /\ conn = "ready"
    /\ readyPc = "done" /\ timers = 1
    /\ \E t \in TickIds : tick[t].pc = "done"


(***************************************************************************)
(* The bearer token: cleanBearerToken (bot.js:208-215) and the two         *)
(* requests built from the credential (bot.js:88-94, 221-242).             *)
(***************************************************************************)

MaxTokenLen == 4

\* The characters of a credential: white space, a quote (the patterns of
\* bot.js:211 treat ' and " alike), the word Bearer in any letter case
\* (matched as a whole by /^Bearer\s+/i), and any other character.
Chars == {" ", "'", "Bearer", "x"}

TokenStrings == UNION {[1..n -> Chars] : n \in 0..MaxTokenLen}

\* What process.env can hand to cleanBearerToken.
TokenValues == TokenStrings \cup {NullToken, UndefinedToken}

RECURSIVE TrimStart(_)
TrimStart(s) ==
    IF s # <<>> /\ s[1] = " " THEN TrimStart(Tail(s)) ELSE s

RECURSIVE TrimEnd(_)
TrimEnd(s) ==
    IF s # <<>> /\ s[Len(s)] = " " THEN TrimEnd(SubSeq(s, 1, Len(s) - 1)) ELSE s

\* bot.js:211  token.trim()
Trim(s) == TrimEnd(TrimStart(s))

\* bot.js:211  .replace(/^["']|["']$/g, ''): one quote at the start and one
\* at the end of what follows it are removed.
StripQuotes(s) ==
    LET a == IF s # <<>> /\ s[1] = "'" THEN Tail(s) ELSE s IN
      IF a # <<>> /\ a[Len(a)] = "'" THEN SubSeq(a, 1, Len(a) - 1) ELSE a

\* bot.js:213  .replace(/^Bearer\s+/i, ''): the word and the white space
\* after it are removed once, when there is white space after it.
StripBearer(s) ==
    IF Len(s) >= 2 /\ s[1] = "Bearer" /\ s[2] = " " THEN TrimStart(Tail(s)) ELSE s

\* !token (bot.js:209, 222): null, undefined and the empty string.
TokenFalsy(t) == t \in {NullToken, UndefinedToken, <<>>}

\* bot.js:208-215
cleanBearerToken(t) ==
    IF TokenFalsy(t) THEN NullToken ELSE StripBearer(StripQuotes(Trim(t)))

\* `Bearer ${t}` (bot.js:90, 236)
BearerHeader(t) == <<"Bearer", " ">> \o t

\* getLatestCommit throws before its fetch (bot.js:222-224).
NoRequest == [url |-> "no request", authorization |-> <<>>]

\* Any value of the credential, with nothing computed from it.
InitToken ==
    /\ lastCommitId = Null
    /\ tick = [t \in TickIds |-> NewTick]
    /\ cmd = [i \in InteractionIds |-> NewInteraction]
    /\ readyPc = "waiting"
    /\ timers = 0
    /\ crashed = FALSE
    /\ env = Configured
    /\ proc = "running"
    /\ exitCode = 0
    /\ listening = TRUE
    /\ conn = "starting"
    /\ logins = 1
    /\ latest = NoRecord
    /\ commitMessage = NotFormatted
    /\ \E t \in TokenValues : TokenConfigured(t)

\* bot.js:221  const token = cleanBearerToken(DIVERSION_BEARER_TOKEN)
CleanToken ==
    /\ cleaned = NotApplied
    /\ cleaned' = cleanBearerToken(DIVERSION_BEARER_TOKEN)
    /\ UNCHANGED <<lastCommitId, tick, readyPc, timers, crashed, cmd, hostVars,
                   conn, logins, latest, commitMessage,
                   DIVERSION_BEARER_TOKEN, recleaned, pollerRequest, statusRequest>>

\* cleanBearerToken applied to its own result.
CleanAgain ==
    /\ cleaned # NotApplied
    /\ recleaned = NotApplied
    /\ recleaned' = cleanBearerToken(cleaned)
    /\ UNCHANGED <<lastCommitId, tick, readyPc, timers, crashed, cmd, hostVars,
                   conn, logins, latest, commitMessage,
                   DIVERSION_BEARER_TOKEN, cleaned, pollerRequest, statusRequest>>

\* bot.js:88-94: the poller sends the credential as configured; the
\* validation of bot.js:54-59 has let only a non-empty string through.
PollerRequest ==
    /\ pollerRequest = NotBuilt
    /\ ~TokenFalsy(DIVERSION_BEARER_TOKEN)
    /\ pollerRequest' = [url |-> "DIVERSION_API_URL",
                         authorization |-> BearerHeader(DIVERSION_BEARER_TOKEN)]
    /\ UNCHANGED <<lastCommitId, tick, readyPc, timers, crashed, cmd, hostVars,
                   conn, logins, latest, commitMessage,
                   DIVERSION_BEARER_TOKEN, cleaned, recleaned, statusRequest>>

\* bot.js:222-242: the status query sends the cleaned credential, and
\* nothing when the cleaned credential is empty.
StatusRequest ==
    /\ statusRequest = NotBuilt
    /\ cleaned # NotApplied
    /\ ~TokenFalsy(DIVERSION_BEARER_TOKEN)
    /\ statusRequest' = IF TokenFalsy(cleaned) THEN NoRequest
                        ELSE [url |-> "DIVERSION_API_URL",
                              authorization |-> BearerHeader(cleaned)]
    /\ UNCHANGED <<lastCommitId, tick, readyPc, timers, crashed, cmd, hostVars,
                   conn, logins, latest, commitMessage,
                   DIVERSION_BEARER_TOKEN, cleaned, recleaned, pollerRequest>>

NextToken == CleanToken \/ CleanAgain \/ PollerRequest \/ StatusRequest

SpecToken == InitToken /\ [][NextToken]_vars

(***************************************************************************)
(* C27.  Cleaning the token twice.                                         *)
(***************************************************************************)

\* No white space and no quote at either end, and no Bearer prefix.
Bare(s) ==
    /\ s # <<>> => (s[1] \notin {" ", "'"} /\ s[Len(s)] \notin {" ", "'"})
    /\ ~(Len(s) >= 2 /\ s[1] = "Bearer" /\ s[2] = " ")

\* C27: cleaning a cleaned token changes nothing; a result that is not null
\* has no white space and no quote around it and no Bearer prefix; null,
\* undefined and the empty string give null.
C27_CleanIdempotentAndBare ==
    /\ recleaned # NotApplied => recleaned = cleaned
    /\ cleaned \notin {NotApplied, NullToken} => Bare(cleaned)
    /\ (cleaned # NotApplied /\ TokenFalsy(DIVERSION_BEARER_TOKEN))
          => cleaned = NullToken


(***************************************************************************)
(* C22.  The request of the status query and the request of the poller.    *)
(***************************************************************************)

\* C22: for every configured credential, the URL and the Authorization
\* header of the status query are those of the poller.
C22_SameRequestAsPoller ==
    (pollerRequest # NotBuilt /\ statusRequest # NotBuilt)
        => statusRequest = pollerRequest


(***************************************************************************)
(* C23.  The bare array and the object with a commits list.                *)
(***************************************************************************)

\* What the comparison makes of commit list L under the stored id last: the
\* position of the tick after it, its outcome so far, and the id stored.
\* Only element 0 of L is looked at.
Considered(L, last) ==
    IF L = <<>> THEN [pc |-> "done", outcome |-> "empty", stored |-> last]
    ELSE IF L[1].id # last
    THEN [pc |-> "lookup", outcome |-> "none", stored |-> L[1].id]
    ELSE [pc |-> "done", outcome |-> "same", stored |-> last]

\* The body of tick t carries a list of commit records in either shape.
CarriesCommits(t) ==
    /\ HasList(tick[t].body)
    /\ \A k \in DOMAIN ListOf(tick[t].body) : ListOf(tick[t].body)[k].kind = "rec"

\* C23: what a tick does with a body that carries commit list L depends on
\* L and the stored id only, not on whether L came as a bare array or as
\* the commits field of an object: from the same stored id both shapes
\* lead to the same notification (or none) and the same stored id, and the
\* commit considered is element 0 of L as it came.
C23_ShapesEquivalent ==
    [][\A t \in TickIds :
          (Compares(t) /\ CarriesCommits(t)) =>
              LET e == Considered(ListOf(tick[t].body), lastCommitId) IN
                /\ tick'[t].pc = e.pc
                /\ tick'[t].outcome = e.outcome
                /\ lastCommitId' = e.stored]_vars

\* The same list arrived once as an array and once as an object: the first
\* tick notified its element 0, the second found that id stored.
C23_Witness ==
    \E t, u \in TickIds :
        /\ tick[t].pc = "done" /\ tick[u].pc = "done"
        /\ tick[t].body = JArray(L12) /\ tick[u].body = JObject(Arr(L12))
        /\ tick[t].seen = Null /\ tick[t].sends = 1
        /\ tick[u].seen = "c1" /\ tick[u].outcome = "same"
        /\ lastCommitId = "c1"


(***************************************************************************)
(* C25.  The final responses of one interaction.                           *)
(***************************************************************************)

\* The commands the handler answers.
AnsweredCommands == {"ping", "status", "test"}

\* C25: no interaction gets more than one final response; a ping, status or
\* test command runs to its end with exactly one, on every path; an
\* interaction that is no chat-input command, or names another command,
\* ends with none; and the handler never rejects.
C25_OneFinalResponse ==
    /\ [](\A i \in InteractionIds :
            /\ cmd[i].finals <= 1
            /\ ~cmd[i].threw
            /\ cmd[i].name \notin AnsweredCommands => cmd[i].finals = 0
            /\ (cmd[i].pc \in {"respond", "done"}
                  /\ cmd[i].name \in AnsweredCommands) => cmd[i].finals = 1
            /\ cmd[i].finals = 1 => cmd[i].via \in {"reply", "editReply"})
    /\ [](~crashed)
    /\ \A i \in InteractionIds :
          (cmd[i].pc # "idle") ~> (cmd[i].pc = "done")

\* A test command whose repository list was no array has ended with its one
\* final response, the message of the inner catch.
C25_Witness ==
    \E i \in InteractionIds :
        /\ cmd[i].name = "test" /\ cmd[i].pc = "done"
        /\ cmd[i].content = "testerror"
        /\ cmd[i].finals = 1


(***************************************************************************)
(* The status command on its own, against every response shape.            *)
(***************************************************************************)

StatusQuery(B) ==
    \/ \E i \in InteractionIds : InteractionCreate(i, TRUE, "status")
    \/ \E i \in InteractionIds : DeferSettled(i)
    \/ \E i \in InteractionIds : StatusFetchSettled(i, B)
    \/ \E i \in InteractionIds : StatusTextSettled(i)
    \/ \E i \in InteractionIds : RespondSettled(i)

NextStatus == Ready \/ StatusQuery(AllBodies)

SpecStatus == Init /\ [][NextStatus]_vars

(***************************************************************************)
(* C24.  The content of the status reply.                                  *)
(***************************************************************************)

\* The causes of failure the claim lists: the token is empty after cleaning,
\* the network call fails (the fetch rejects or the body cannot be read),
\* the status is no success, or the body is not valid JSON.
ListedFailure(i) ==
    \/ cmd[i].tokenEmpty
    \/ cmd[i].status = 0
    \/ cmd[i].status < 200 \/ cmd[i].status > 299
    \/ cmd[i].body.tag \in {"invalid", "aborted"}

\* The first element of what the body resolves to, NullElem when it
\* resolves to nothing: a list in either shape gives its element 0, and so
\* does a string in the commits field.
FirstResolved(b) ==
    IF HasList(b) /\ ListOf(b) # <<>> THEN ListOf(b)[1]
    ELSE IF b.tag = "object" /\ b.commits.tag = "string" /\ b.commits.items # <<>>
    THEN b.commits.items[1]
    ELSE NullElem

MaxQueryTicks == 1

\* Both response shapes, with different heads.
QueryBodies == {JArray(L12), JObject(Arr(L21))}

NextQuery == Ready \/ Poll(QueryBodies, MaxQueryTicks) \/ StatusQuery(QueryBodies)

SpecQuery == Init /\ [][NextQuery]_vars

(***************************************************************************)
(* C21.  The status query and the stored id.                               *)
(***************************************************************************)

\* The content the status command owes to what it was given: the outcome of
\* the token check and the response it received.  The stored id is no part
\* of it.
ReplyFor(r) ==
    IF \/ r.tokenEmpty \/ r.status < 200 \/ r.status > 299
       \/ r.body.tag \in {"invalid", "aborted", "null"}
    THEN "fetchfailed"
    ELSE IF FirstResolved(r.body).kind # "null" THEN "status"
    ELSE "nocommits"

\* Status command i has displayed commit x.
Displayed(i, x) ==
    /\ cmd[i].name = "status" /\ cmd[i].pc \in {"respond", "done"}
    /\ cmd[i].content = "status"
    /\ CommitList(cmd[i].body) /\ HeadId(cmd[i].body) = x

\* C21: whatever id is stored, the status command answers with the content
\* its response calls for, so that two runs that differ in the stored id
\* only answer alike; no step of the command changes the stored id; and a
\* tick that finds a head different from the stored id stores it and goes
\* on to notify it even when a status command has displayed that head.
C21_StatusIndependentOfStored ==
    /\ [](\A i \in InteractionIds :
            (cmd[i].name = "status" /\ Answered(i))
                => cmd[i].content = ReplyFor(cmd[i]))
    /\ [][cmd' # cmd => lastCommitId' = lastCommitId]_vars
    /\ [][\A t \in TickIds :
            (/\ Compares(t) /\ GotList(t)
             /\ HeadId(tick[t].body) # lastCommitId
             /\ \E i \in InteractionIds : Displayed(i, HeadId(tick[t].body)))
                => /\ lastCommitId' = HeadId(tick[t].body)
                   /\ tick'[t].pc = "lookup"]_vars

\* A status command has displayed c2 while the stored id was still null,
\* and a tick is about to compare the same head c2 with it.
C21_Witness ==
    \E i \in InteractionIds, t \in TickIds :
        /\ Displayed(i, "c2") /\ cmd[i].pc = "done"
        /\ lastCommitId = Null
        /\ tick[t].pc = "json" /\ GotList(t) /\ HeadId(tick[t].body) = "c2"


(***************************************************************************)
(* C26.  What has happened when the process exits on a missing setting.    *)
(***************************************************************************)

\* C26: when the process has exited on a missing required setting, no
\* server is listening, no login has been attempted, no command has been
\* registered and no tick has run.
C26_NothingBeforeExit ==
    Exited =>
        /\ ~listening
        /\ logins = 0 /\ conn = "none"
        /\ readyPc = "waiting" /\ timers = 0
        /\ Started = {}
====
